---- MODULE Spec2Model ----
(***************************************************************************)
(* Model of animate.py: the keyframe Animation engine (class Animation)    *)
(* and the AnimateDemo driver loop.                                        *)
(*                                                                         *)
(* Python objects are records held in the functions anims (Animation      *)
(* instances) and durs (the duration iterators, which several Animations  *)
(* may share).  A raised exception is the string in h.raised / err.        *)
(* Numbers produced by value() are exact rationals [num, den]; the model  *)
(* does not round them as binary floating point would.                    *)
(***************************************************************************)
EXTENDS Integers, Sequences, FiniteSets, TLC

VARIABLES
    anims,            \* id -> Animation instance (its __dict__)
    durs,             \* id -> duration iterator (it.repeat / it.cycle / iter)
    err,              \* exception raised by the last call, or "none"
    lastOp,           \* branch taken by the last call on an Animation
    unit,             \* every update since the last start() used advance = 1
    calls,            \* update() calls since the last start(), up to CallCap
    startFrom,        \* the instance as the last start() found it
    stats,            \* pairs pulled and callbacks made by the last call
    animation,        \* AnimateDemo.animation: id of the active Animation or None
    animations,       \* AnimateDemo.animations: iterator over Animation ids
    actor_animation,  \* AnimateDemo.actor_animation: id
    rect,             \* AnimateDemo.rect: [centerx, centery]
    trail,            \* AnimateDemo.trail: deque(maxlen=60) of rect.center
    running,          \* AnimateDemo.running
    events,           \* pygame event queue
    posted,           \* number of post_quit() calls made by AnimateDemo.update
    tick,             \* what the last AnimateDemo.update did (one record per tick)
    appended,         \* positions given to trail.append so far, up to HistCap
    pc,               \* position in AnimateDemo.start / run
    call,             \* the last call of lerp / invlerp: function and arguments
    result            \* what that call returned or raised

vars == <<anims, durs, err, lastOp, unit, calls, startFrom, stats, animation,
          animations, actor_animation, rect, trail, running, events, posted,
          tick, appended, pc, call, result>>

engineVars == <<anims, durs, err, lastOp, unit, calls, startFrom, stats>>
driverVars == <<animation, animations, actor_animation, rect, trail,
                running, events, posted, tick, appended, pc>>
blendVars  == <<call, result>>

-----------------------------------------------------------------------------
(* Bounds of the model *)

MaxLen == 3        \* longest value sequence given to an Animation
MaxDur == 2        \* largest segment duration
MaxAdvance == 2    \* largest advance passed to update()
MaxDurLen == 2     \* longest finite / cyclic duration list

\* calls stops counting here: enough for two segments and their exhaustion
CallCap == 2 * MaxDur + 4

(* Program constants *)

TrailMaxLen == 60  \* deque(maxlen=60)
\* appended stops recording here: a few appends past a full trail
HistCap == TrailMaxLen + 3

None == -1         \* Python None / attribute not set yet
Vals == {0, 10, 20}

-----------------------------------------------------------------------------
(* Sequences helpers *)

SeqsUpTo(S, n) == UNION {[1..k -> S] : k \in 0..n}

\* nwise(iterable, n=2): the overlapping pairs of values; by itself it
\* raises StopIteration when the iterable is empty (next(pair) on an empty
\* tee), see start().
nwise(values) ==
    IF Len(values) < 2 THEN <<>>
    ELSE [k \in 1..(Len(values) - 1) |-> <<values[k], values[k + 1]>>]

-----------------------------------------------------------------------------
(* Duration iterators: it.repeat(d), it.cycle(list), iter(list) *)

DurRepeat(d) == [kind |-> "repeat", seq |-> <<d>>, pos |-> 0]
DurCycle(s)  == [kind |-> "cycle",  seq |-> s,     pos |-> 0]
DurIter(s)   == [kind |-> "iter",   seq |-> s,     pos |-> 0]

\* next(self.durations) does not raise StopIteration
DurHasNext(du) ==
    CASE du.kind = "repeat" -> TRUE
      [] du.kind = "cycle"  -> Len(du.seq) > 0
      [] OTHER              -> du.pos < Len(du.seq)

\* the value next(self.durations) returns
DurNext(du) ==
    CASE du.kind = "repeat" -> du.seq[1]
      [] du.kind = "cycle"  -> du.seq[(du.pos % Len(du.seq)) + 1]
      [] OTHER              -> du.seq[du.pos + 1]

\* the iterator after next(self.durations)
DurAdvance(du) ==
    CASE du.kind = "repeat" -> du
      [] du.kind = "cycle"  -> [du EXCEPT !.pos = (@ + 1) % Len(du.seq)]
      [] OTHER              -> [du EXCEPT !.pos = @ + 1]

DurInfinite(du) == du.kind \in {"repeat", "cycle"} /\ Len(du.seq) > 0

-----------------------------------------------------------------------------
(* The pair iterator self.pairs = self.iterfunc(map(list, nwise(values))) *)

\* next(self.pairs) does not raise StopIteration
PairsHasNext(an) ==
    IF an.iterfunc = "cycle" THEN Len(nwise(an.values)) > 0
    ELSE an.pos < Len(nwise(an.values))

\* the pair next(self.pairs) returns
PairsNext(an) == nwise(an.values)[(an.pos % Len(nwise(an.values))) + 1]

\* position of the iterator after next(self.pairs)
PairsAdvance(an) ==
    IF an.iterfunc = "cycle" THEN (an.pos + 1) % Len(nwise(an.values))
    ELSE an.pos + 1

-----------------------------------------------------------------------------
(* class Animation *)

\* the state of the interpreter a method runs in and leaves behind
\* pulled counts the assignments of (a, b), called the next_callback calls,
\* log lists the instances whose update() ran, in program order
Heap(a, d) == [anims |-> a, durs |-> d, raised |-> "none",
               pulled |-> 0, called |-> 0, log |-> <<>>]

\* actor_color_callback in main(): animation.actor_color = next(actor_colors)
\* over it.cycle([red, green, blue]), colours numbered 0, 1, 2
actor_color_callback(an) ==
    [an EXCEPT !.actor_color = IF @ = None THEN 0 ELSE (@ + 1) % 3]

\* Animation.next_pair
next_pair(h, i) ==
    LET an == h.anims[i] IN
    IF ~PairsHasNext(an)
    THEN [h EXCEPT !.raised = "StopIteration"]
    ELSE
        LET p   == PairsNext(an)
            an1 == [an EXCEPT !.a = p[1], !.b = p[2], !.pos = PairsAdvance(an)]
            du  == h.durs[an.durations]
        IN  IF ~DurHasNext(du)
            THEN [h EXCEPT !.anims[i] = an1, !.raised = "StopIteration",
                           !.pulled = @ + 1]
            ELSE
                LET an2 == [an1 EXCEPT !.current_duration = DurNext(du)]
                    an3 == IF an2.next_callback
                           THEN actor_color_callback(an2) ELSE an2
                IN  [h EXCEPT !.anims[i] = an3,
                              !.durs[an.durations] = DurAdvance(du),
                              !.pulled = @ + 1,
                              !.called = IF an2.next_callback THEN @ + 1 ELSE @]

\* start() that keeps the old pair iterator instead of building a new one
start_keeps_pairs(h, i) ==
    LET an0 == [h.anims[i] EXCEPT !.frame = 0] IN
    IF Len(an0.values) = 0
    THEN [h EXCEPT !.anims[i] = an0, !.raised = "StopIteration"]
    ELSE next_pair([h EXCEPT !.anims[i] = [an0 EXCEPT !.running = TRUE]], i)

\* start() that hands the durations out from the beginning again
start_rewinds_durations(h, i) ==
    LET an0 == [h.anims[i] EXCEPT !.frame = 0] IN
    IF Len(an0.values) = 0
    THEN [h EXCEPT !.anims[i] = an0, !.raised = "StopIteration"]
    ELSE next_pair([h EXCEPT !.anims[i] =
                                [an0 EXCEPT !.pos = 0, !.running = TRUE],
                             !.durs[an0.durations].pos = 0], i)

\* start() that turns the exhaustion of its first pull into running = False
start_swallows(h, i) ==
    LET an0 == [h.anims[i] EXCEPT !.frame = 0]
        h1  == IF Len(an0.values) = 0
               THEN [h EXCEPT !.anims[i] = an0, !.raised = "StopIteration"]
               ELSE next_pair([h EXCEPT !.anims[i] =
                                  [an0 EXCEPT !.pos = 0, !.running = TRUE]], i)
    IN  IF h1.raised = "StopIteration"
        THEN [h1 EXCEPT !.anims[i].running = FALSE, !.raised = "none"]
        ELSE h1

\* Animation.start
start(h, i) ==
    LET an0 == [h.anims[i] EXCEPT !.frame = 0] IN
    IF Len(an0.values) = 0
    THEN \* nwise() itself raises: next(pair) on the empty second tee
         [h EXCEPT !.anims[i] = an0, !.raised = "StopIteration"]
    ELSE next_pair([h EXCEPT !.anims[i] =
                       [an0 EXCEPT !.pos = 0, !.running = TRUE]], i)

\* update() that forgets self.frame = 0 after pulling the next pair
update_no_reset(h, i, advance) ==
    LET an == h.anims[i] IN
    IF an.frame < an.current_duration
    THEN [h EXCEPT !.anims[i].frame = @ + advance]
    ELSE
        LET h1 == next_pair(h, i) IN
        IF h1.raised = "StopIteration"
        THEN [h1 EXCEPT !.anims[i].running = FALSE, !.raised = "none"]
        ELSE h1

\* update() that rewinds self.frame when the sequence is exhausted
update_rewinds(h, i, advance) ==
    LET an == h.anims[i] IN
    IF an.frame < an.current_duration
    THEN [h EXCEPT !.anims[i].frame = @ + advance]
    ELSE
        LET h1 == next_pair(h, i) IN
        IF h1.raised = "StopIteration"
        THEN [h1 EXCEPT !.anims[i].running = FALSE, !.anims[i].frame = 0,
                        !.raised = "none"]
        ELSE [h1 EXCEPT !.anims[i].frame = 0]

\* Animation.update
update(h, i, advance) ==
    LET an == h.anims[i] IN
    IF an.frame < an.current_duration
    THEN [h EXCEPT !.anims[i].frame = @ + advance, !.log = Append(@, i)]
    ELSE
        LET h1 == next_pair(h, i) IN
        IF h1.raised = "StopIteration"
        THEN [h1 EXCEPT !.anims[i].running = FALSE, !.raised = "none",
                        !.log = Append(@, i)]
        ELSE [h1 EXCEPT !.anims[i].frame = 0, !.log = Append(@, i)]

\* the branch of Animation.update taken
UpdateBranch(h, i) ==
    LET an == h.anims[i] IN
    IF an.frame < an.current_duration THEN "update_advance"
    ELSE IF next_pair(h, i).raised = "StopIteration" THEN "update_exhausted"
    ELSE "update_next"

\* _lerp(a, b, t) = a * (1 - t) + b * t for the fraction t = tn / td
lerp(a, b, tn, td) == [num |-> a * (td - tn) + b * tn, den |-> td]

\* hold(a, b, t) in main()
hold(a, b, tn, td) == [num |-> a, den |-> 1]

\* Animation.value raises ZeroDivisionError (frame / current_duration)
ValueRaises(an) == an.current_duration = 0

\* Animation.value
value(an) ==
    IF an.lerpfunc = "hold"
    THEN hold(an.a, an.b, an.frame, an.current_duration)
    ELSE lerp(an.a, an.b, an.frame, an.current_duration)

\* value() == v for an integer v
ValueIs(an, v) == ~ValueRaises(an) /\ value(an).num = v * value(an).den

\* Animation.__init__: the instance before start() runs
NewAnimation(durations, values, lerpfunc, iterfunc, next_callback, attr) ==
    [durations |-> durations, values |-> values, lerpfunc |-> lerpfunc,
     iterfunc |-> iterfunc, next_callback |-> next_callback, attr |-> attr,
     frame |-> None, pos |-> 0, running |-> FALSE,
     a |-> None, b |-> None, current_duration |-> None,
     actor_color |-> None]

-----------------------------------------------------------------------------
(* Specification of one Animation driven directly by start() and update() *)

\* duration lists: 1..MaxDur taken cyclically from any starting point, of
\* every length from 1 to n
DurLists(n) ==
    {[k \in 1..len |-> ((o + k) % MaxDur) + 1] : len \in 1..n, o \in 1..MaxDur}

DurConfigs ==
    {DurRepeat(d) : d \in 1..MaxDur}
      \cup {DurCycle(s) : s \in DurLists(MaxDurLen)}
      \cup {DurIter(s) : s \in DurLists(MaxDurLen)}

\* no AnimateDemo.update has run yet
NoTick == [branch |-> "none", finished |-> FALSE, active |-> None,
           order |-> <<>>]

\* AnimateDemo.__init__ / reset: the driver before start()
DemoConstructed ==
    /\ animation = None
    /\ animations = [items |-> <<>>, pos |-> 0, kind |-> "iter"]
    /\ actor_animation = None
    /\ rect = [centerx |-> 0, centery |-> 0]
    /\ trail = <<>>
    /\ running = FALSE
    /\ events = <<>>
    /\ posted = 0
    /\ tick = NoTick
    /\ appended = <<>>
    /\ pc = "constructed"

\* no call of lerp / invlerp yet
NoCall == [fn |-> "none"]

\* what start() found: a new instance, one in its first segment, one in a
\* later segment, or one that has stopped running
Snapshot(an) ==
    IF an.frame = None THEN "new"
    ELSE IF ~an.running THEN "finished"
    ELSE IF an.pos = 1 /\ an.frame = 0 THEN "fresh"
    ELSE IF an.pos = 1 THEN "mid"
    ELSE "later"

\* value sequences of the Animation: 0, 10, 20 taken cyclically from any
\* starting point, of every length up to MaxLen (too short ones included)
ValueSeqs ==
    {[k \in 1..n |-> 10 * ((o + k) % 3)] : n \in 0..MaxLen, o \in 0..2}

Init ==
    /\ \E values \in ValueSeqs, du \in DurConfigs,
          iterfunc \in {"iter", "cycle"}, next_callback \in BOOLEAN :
          LET h == start(Heap(1 :> NewAnimation(1, values, "lerp", iterfunc,
                                                next_callback, ""),
                              1 :> du), 1)
          IN  /\ anims = h.anims
              /\ durs = h.durs
              /\ err = h.raised
              /\ stats = [pulled |-> h.pulled, called |-> h.called]
    /\ lastOp = "construct"
    /\ unit = TRUE
    /\ calls = 0
    /\ startFrom = Snapshot(NewAnimation(1, <<>>, "lerp", "iter", FALSE, ""))
    /\ DemoConstructed
    /\ call = NoCall
    /\ result = NoCall

\* the constructor returned an instance
Constructed == ~(lastOp = "construct" /\ err # "none")

\* a call of start() on the instance
Start ==
    /\ Constructed
    /\ LET h == start(Heap(anims, durs), 1)
       IN  /\ anims' = h.anims
           /\ durs' = h.durs
           /\ err' = h.raised
           /\ stats' = [pulled |-> h.pulled, called |-> h.called]
    /\ lastOp' = "start"
    /\ unit' = TRUE
    /\ calls' = 0
    /\ startFrom' = Snapshot(anims[1])
    /\ UNCHANGED <<driverVars, blendVars>>

\* a call of update(advance) on the instance
Update ==
    /\ Constructed
    /\ \E advance \in 1..MaxAdvance :
          LET h == update(Heap(anims, durs), 1, advance)
          IN  /\ anims' = h.anims
              /\ durs' = h.durs
              /\ err' = h.raised
              /\ stats' = [pulled |-> h.pulled, called |-> h.called]
              /\ lastOp' = UpdateBranch(Heap(anims, durs), 1)
              /\ unit' = (unit /\ (advance = 1 \/ lastOp' # "update_advance"))
    /\ calls' = IF calls < CallCap THEN calls + 1 ELSE calls
    /\ UNCHANGED <<startFrom, driverVars, blendVars>>

Next == Start \/ Update

Spec == Init /\ [][Next]_vars

-----------------------------------------------------------------------------
(* class AnimateDemo *)

\* the iterator build_animations returns: iter(list) or it.cycle(list)
AnimIter(items, kind) == [items |-> items, pos |-> 0, kind |-> kind]

\* next(self.animations) does not raise StopIteration
AnimHasNext(it) ==
    IF it.kind = "cycle" THEN Len(it.items) > 0 ELSE it.pos < Len(it.items)

\* the Animation next(self.animations) returns
AnimNext(it) == it.items[(it.pos % Len(it.items)) + 1]

\* an iterator that hands out the same Animation again and again
AnimAdvance_stays(it) == it

\* the iterator after next(self.animations)
AnimAdvance(it) ==
    IF it.kind = "cycle" THEN [it EXCEPT !.pos = (@ + 1) % Len(it.items)]
    ELSE [it EXCEPT !.pos = @ + 1]

\* next_animation() that forgets self.animation.start()
next_animation_no_start(h, it) ==
    IF ~AnimHasNext(it)
    THEN [h |-> h, animation |-> None, animations |-> it]
    ELSE [h |-> h, animation |-> AnimNext(it), animations |-> AnimAdvance(it)]

\* AnimateDemo.next_animation: the heap, self.animation and self.animations
\* it leaves; h.raised is the StopIteration start() lets through
next_animation(h, it) ==
    IF ~AnimHasNext(it)
    THEN [h |-> h, animation |-> None, animations |-> it]
    ELSE [h |-> start(h, AnimNext(it)), animation |-> AnimNext(it),
          animations |-> AnimAdvance(it)]

\* int(x) as pygame.Rect stores a coordinate: truncation towards zero
Trunc(v) ==
    IF v.num >= 0 THEN v.num \div v.den ELSE -((-v.num) \div v.den)

\* setattr(self.rect, 'centerx', value)
rect_setattr(r, attr, v) ==
    IF attr = "centerx" THEN [r EXCEPT !.centerx = Trunc(v)]
    ELSE [r EXCEPT !.centery = Trunc(v)]

\* self.rect.center
rect_center(r) == <<r.centerx, r.centery>>

\* a full trail that refuses the new entry instead of dropping the oldest
deque_append_keeps_oldest(q, x) ==
    IF Len(q) = TrailMaxLen THEN q ELSE Append(q, x)

\* deque(maxlen=60).append
deque_append(q, x) ==
    IF Len(q) = TrailMaxLen THEN Append(Tail(q), x) ELSE Append(q, x)

\* a drain that reads the oldest entry without removing it
popleft_peeks(q) == q

\* a drain that removes the newest entry
popleft_pops_right(q) == SubSeq(q, 1, Len(q) - 1)

\* deque.popleft
popleft(q) == Tail(q)

\* post_quit(): pygame.event.post(pygame.event.Event(pygame.QUIT))
post_quit(q) == Append(q, "QUIT")

\* AnimateDemo.events: running after handling the queued events
events_running(q, r) ==
    IF \E k \in 1..Len(q) : q[k] = "QUIT" THEN FALSE ELSE r

\* AnimateDemo.events: the queue it leaves (one post_quit per Q / Escape key)
events_posted(q) ==
    LET keys == SelectSeq(q, LAMBDA e : e = "KEYDOWN_Q")
    IN  [k \in 1..Len(keys) |-> "QUIT"]

-----------------------------------------------------------------------------
(* Specification of the driver: main() has built the Animations,           *)
(* AnimateDemo is constructed, then start() and run() execute; no user     *)
(* input arrives                                                           *)

MaxAnims == 2      \* longest list of positional Animations

\* value sequences of the positional Animations
DriverValues ==
    {s \in SeqsUpTo(Vals, MaxLen) :
        Len(s) >= 2 /\ \A k \in 1..(Len(s) - 1) : s[k] < s[k + 1]}

\* the duration iterator the positional Animations share (number_frames)
DriverDurs ==
    {DurRepeat(d) : d \in 1..MaxDur}
      \cup {DurIter(s) : s \in DurLists(MaxDurLen + 1)}

ActorId == 0
ActorDurs == 9

\* actor_animation in main(): surfaces 0, 1 and the last one again, cyclic
ActorAnimation ==
    NewAnimation(ActorDurs, <<0, 1, 1>>, "hold", "cycle", TRUE, "")

\* construct Animations 1..n one after the other (build_animations)
RECURSIVE Build(_, _, _, _)
Build(h, valueseqs, iterfunc, k) ==
    IF k > Len(valueseqs) \/ h.raised # "none" THEN h
    ELSE Build(start([h EXCEPT !.anims =
                        (k :> NewAnimation(1, valueseqs[k], "lerp", iterfunc,
                                           FALSE, "centerx")) @@ @], k),
               valueseqs, iterfunc, k + 1)

InitDriver ==
    /\ \E valueseqs \in SeqsUpTo(DriverValues, MaxAnims), du \in DriverDurs,
          iterfunc \in {"iter", "cycle"}, kind \in {"iter", "cycle"} :
          LET h0 == start(Heap(ActorId :> ActorAnimation,
                               (ActorDurs :> DurCycle(<<2, 1, 1>>)) @@ (1 :> du)),
                          ActorId)
              h  == Build(h0, valueseqs, iterfunc, 1)
          IN  /\ h.raised = "none"
              /\ anims = h.anims
              /\ durs = h.durs
              /\ animations = AnimIter([k \in 1..Len(valueseqs) |-> k], kind)
    /\ err = "none"
    /\ lastOp = "construct"
    /\ unit = TRUE
    /\ calls = 0
    /\ startFrom = "new"
    /\ stats = [pulled |-> 0, called |-> 0]
    /\ call = NoCall
    /\ result = NoCall
    /\ appended = <<>>
    /\ animation = None
    /\ actor_animation = ActorId
    /\ rect = [centerx |-> 0, centery |-> 0]
    /\ trail = <<>>
    /\ running = FALSE
    /\ events = <<>>
    /\ posted = 0
    /\ tick = NoTick
    /\ pc = "constructed"

\* AnimateDemo.start up to the loop of run(): next_animation(), running = True
DemoStart ==
    /\ pc = "constructed"
    /\ \E r \in {next_animation(Heap(anims, durs), animations)} :
           /\ anims' = r.h.anims
           /\ durs' = r.h.durs
           /\ animation' = r.animation
           /\ animations' = r.animations
           /\ err' = r.h.raised
           /\ IF r.h.raised # "none"
              THEN pc' = "crashed" /\ running' = running
              ELSE pc' = "loop" /\ running' = TRUE
    /\ UNCHANGED <<lastOp, unit, calls, startFrom, stats, actor_animation,
                   rect, trail, events, posted, tick, appended, blendVars>>

\* run(): while self.running
LoopTest ==
    /\ pc = "loop"
    /\ pc' = IF running THEN "events" ELSE "done"
    /\ UNCHANGED <<engineVars, animation, animations, actor_animation, rect,
                   trail, running, events, posted, tick, appended, blendVars>>

\* run(): self.events()
Events ==
    /\ pc = "events"
    /\ running' = events_running(events, running)
    /\ events' = events_posted(events)
    /\ pc' = "update"
    /\ UNCHANGED <<engineVars, animation, animations, actor_animation, rect,
                   trail, posted, tick, appended, blendVars>>

\* a tick that updates the positional Animation before the actor Animation
demo_updates_position_first(h, actor, active) ==
    IF active = None THEN update(h, actor, 1)
    ELSE CHOOSE h2 \in {update(h1, actor, 1) : h1 \in {update(h, active, 1)}} :
            TRUE

\* AnimateDemo.update: self.actor_animation.update(), then, if there is an
\* active Animation, self.animation.update()
demo_updates(h, actor, active) ==
    CHOOSE h2 \in {IF active # None THEN update(h1, active, 1) ELSE h1 :
                   h1 \in {update(h, actor, 1)}} : TRUE

\* run(): self.update()
DemoUpdate ==
    /\ pc = "update"
    /\ \E h2 \in {demo_updates(Heap(anims, durs), actor_animation, animation)} :
       IF animation # None
       THEN \E an \in {h2.anims[animation]} :
            \E r \in {IF ~an.running THEN next_animation(h2, animations)
                      ELSE [h |-> h2, animation |-> animation,
                            animations |-> animations]} :
                IF ValueRaises(an)
                THEN /\ anims' = h2.anims
                     /\ durs' = h2.durs
                     /\ err' = "ZeroDivisionError"
                     /\ pc' = "crashed"
                     /\ UNCHANGED <<animation, animations, rect, trail, tick,
                                    appended, events, posted>>
                ELSE /\ rect' = rect_setattr(rect, an.attr, value(an))
                     /\ trail' = deque_append(trail, rect_center(rect'))
                     /\ appended' = IF Len(appended) < HistCap
                                     THEN Append(appended, rect_center(rect'))
                                     ELSE appended
                     /\ anims' = r.h.anims
                     /\ durs' = r.h.durs
                     /\ animation' = r.animation
                     /\ animations' = r.animations
                     /\ err' = r.h.raised
                     /\ tick' = [branch |-> "animate", finished |-> ~an.running,
                                 active |-> animation,
                                 order |-> h2.log]
                     /\ pc' = IF r.h.raised # "none" THEN "crashed" ELSE "draw"
                     /\ UNCHANGED <<events, posted>>
       ELSE /\ anims' = h2.anims
            /\ durs' = h2.durs
            /\ IF trail # <<>>
               THEN /\ trail' = popleft(trail)
                    /\ tick' = [branch |-> "drain", finished |-> FALSE,
                                active |-> None,
                                order |-> h2.log]
                    /\ UNCHANGED <<events, posted>>
               ELSE /\ events' = post_quit(events)
                    /\ posted' = posted + 1
                    /\ tick' = [branch |-> "quit", finished |-> FALSE,
                                active |-> None,
                                order |-> h2.log]
                    /\ UNCHANGED trail
            /\ pc' = "draw"
            /\ UNCHANGED <<err, animation, animations, rect, appended>>
    /\ UNCHANGED <<lastOp, unit, calls, startFrom, stats, actor_animation,
                   running, blendVars>>

\* run(): self.draw()
Draw ==
    /\ pc = "draw"
    /\ pc' = "loop"
    /\ UNCHANGED <<engineVars, animation, animations, actor_animation, rect,
                   trail, running, events, posted, tick, appended, blendVars>>

NextDriver == DemoStart \/ LoopTest \/ Events \/ DemoUpdate \/ Draw

SpecDriver == InitDriver /\ [][NextDriver]_vars

\* non-repeat mode: build_animations(repeat=False)
InitNoRepeat == InitDriver /\ animations.kind = "iter"

\* the loop of run() keeps executing: nothing in it blocks
SpecDriverFair == InitNoRepeat /\ [][NextDriver]_vars /\ WF_vars(NextDriver)

-----------------------------------------------------------------------------
(* Properties of one Animation (specification Spec) *)

self == anims[1]

\* Animation(it.repeat(D), 0, 10, 20): one pass, uniform duration D
OnePass_0_10_20 ==
    /\ Constructed
    /\ self.values = <<0, 10, 20>>
    /\ self.iterfunc = "iter"
    /\ self.lerpfunc = "lerp"
    /\ durs[1].kind = "repeat"

D == durs[1].seq[1]

\* C1 (as claimed): after the D-th unit update() since start(), the one that
\* brings frame to D, value() is 10 and the current pair is already (10, 20).
C1_PullsInSameCall ==
    (OnePass_0_10_20 /\ unit /\ calls = D)
        => (ValueIs(self, 10) /\ self.a = 10 /\ self.b = 20)

\* C1 (amended): after the D-th unit update() since start() frame is D,
\* value() is 10 and the pair is still (0, 10); it is the following update()
\* that pulls (10, 20) and resets frame to 0, where value() is 10 again.
C1_PullsInNextCall ==
    (OnePass_0_10_20 /\ unit)
        => /\ (calls = D) =>
                /\ lastOp = "update_advance"
                /\ self.frame = D
                /\ ValueIs(self, 10)
                /\ self.a = 0 /\ self.b = 10
           /\ (calls = D + 1) =>
                /\ lastOp = "update_next"
                /\ self.frame = 0
                /\ ValueIs(self, 10)
                /\ self.a = 10 /\ self.b = 20

C1_Witness ==
    /\ OnePass_0_10_20 /\ unit /\ calls = D
    /\ lastOp = "update_advance" /\ self.frame = self.current_duration

C3_ExhaustionOnlyStops ==
    [][ (unit /\ lastOp' = "update_exhausted")
          => /\ ~self'.running
             /\ self'.a = self.a /\ self'.b = self.b
             /\ self'.current_duration = self.current_duration
             /\ self'.frame = self.frame
             /\ ValueIs(self', self.b) ]_vars

\* C4 (as claimed): in every state reached by start() and update(dt) calls
\* 0 <= frame <= current_duration.
C4_ElapsedWithinDuration ==
    Constructed => (0 <= self.frame /\ self.frame <= self.current_duration)

\* Animation(durations, A, B, iterfunc=it.cycle)
Cyclic_A_B ==
    /\ Constructed
    /\ Len(self.values) = 2
    /\ self.iterfunc = "cycle"

CyclesBack ==
    /\ self.running
    /\ self.a = self.values[1] /\ self.b = self.values[2]
    /\ (lastOp = "update_next") => self.frame = 0

\* C5 (as claimed): a cyclic Animation over [A, B] keeps running true, its
\* pair is (A, B) and frame is 0 after every completed segment.
C5_CyclicNeverStops == Cyclic_A_B => CyclesBack

\* C5 (amended): the same, for a duration sequence that never runs out
\* (it.repeat, it.cycle of a non-empty list).
C5_CyclicNeverStopsInfiniteDurations ==
    (Cyclic_A_B /\ DurInfinite(durs[1])) => CyclesBack

C5_Witness ==
    /\ Cyclic_A_B /\ DurInfinite(durs[1])
    /\ lastOp = "update_next" /\ calls >= 4 /\ self.running

\* the instance Animation(...) would return for the same arguments
Fresh(an) ==
    start(Heap(1 :> NewAnimation(an.durations, an.values, an.lerpfunc,
                                 an.iterfunc, an.next_callback, an.attr),
               1 :> DurRepeat(1)), 1).anims[1]

\* C6: after start(), whatever state it was called in, running is true,
\* frame is 0, (a, b) is the first pair of values and the pair iterator is
\* where it is after construction.
C6_StartRestarts ==
    (lastOp = "start")
        => /\ self.running
           /\ self.frame = 0
           /\ self.a = self.values[1] /\ self.b = self.values[2]
           /\ self.pos = Fresh(self).pos
           /\ PairsHasNext(self) = PairsHasNext(Fresh(self))
           /\ PairsHasNext(self) => PairsNext(self) = PairsNext(Fresh(self))

C6_Witness ==
    /\ lastOp = "start" /\ startFrom = "finished" /\ err = "none"
    /\ Len(self.values) = 3 /\ self.running /\ self.frame = 0

-----------------------------------------------------------------------------
(* Properties of the driver (specifications SpecDriver, SpecDriverFair) *)

\* the Animation that follows Animation k in self.animations
Successor(k) ==
    IF animations.kind = "cycle" THEN (k % Len(animations.items)) + 1
    ELSE k + 1

FreshlyStarted(an) ==
    /\ an.running
    /\ an.frame = 0
    /\ an.a = an.values[1] /\ an.b = an.values[2]
    /\ an.pos = Fresh(an).pos

\* C7: when AnimateDemo.update has returned, self.animation is None or an
\* Animation with running true; if the active Animation stopped running in
\* this tick, self.animation is its successor in the sequence, freshly
\* started, or None when the sequence has no successor.
C7_ActiveIsRunning ==
    (pc = "draw")
        => /\ animation = None \/ anims[animation].running
           /\ tick.finished =>
                IF Successor(tick.active) \in 1..Len(animations.items)
                THEN /\ animation = Successor(tick.active)
                     /\ FreshlyStarted(anims[animation])
                ELSE animation = None

C7_Witness ==
    /\ pc = "draw" /\ tick.finished /\ animation # None
    /\ anims[animation].running /\ ~anims[tick.active].running

\* C8: once self.animation is None after start(), it stays None and
\* rect never changes; every AnimateDemo.update with a non-empty trail
\* removes exactly the oldest entry and appends nothing, and nothing else
\* touches the trail.
C8_DrainsOldestFirst ==
    [][ (animation = None /\ pc \notin {"constructed", "crashed"})
          => /\ animation' = None
             /\ rect' = rect
             /\ (pc = "update" /\ trail # <<>>)
                   => (trail' = Tail(trail) /\ Len(trail') = Len(trail) - 1)
             /\ (pc # "update" \/ trail = <<>>) => trail' = trail ]_vars

C8_Witness ==
    /\ animation = None /\ pc = "draw" /\ tick.branch = "drain"
    /\ Len(animations.items) > 0 /\ Len(trail) >= 2
    /\ trail[1] # trail[Len(trail)]

\* C9 (as claimed): AnimateDemo.update posts at most one quit, and exactly
\* one has been posted when the loop of run() has stopped.
C9_QuitPostedOnce ==
    /\ posted <= 1
    /\ (pc = "done") => posted = 1

\* non-repeat mode, one-pass Animations, durations that never run out
OnePassDemo ==
    /\ animations.kind = "iter"
    /\ \A k \in 1..Len(animations.items) :
          /\ anims[k].iterfunc = "iter"
          /\ DurInfinite(durs[anims[k].durations])

\* run() has returned after every Animation finished and the trail drained
DemoDone ==
    /\ pc = "done"
    /\ ~running
    /\ animation = None
    /\ \A k \in 1..Len(animations.items) : ~anims[k].running
    /\ trail = <<>>
    /\ posted >= 1

\* C10: in non-repeat mode with one-pass Animations over infinite duration
\* sequences and no user input, run() eventually returns: every Animation
\* has finished, the trail is empty, a quit was posted and running is false.
C10_LoopTerminates == <>(OnePassDemo => DemoDone)

C10_Witness ==
    /\ OnePassDemo /\ DemoDone /\ Len(animations.items) = MaxAnims

-----------------------------------------------------------------------------
(* C11..C20 *)

\* the last k entries of s, oldest first
LastK(s, k) == IF Len(s) > k THEN SubSeq(s, Len(s) - k + 1, Len(s)) ELSE s

\* C11: the trail never holds more than TrailMaxLen entries, and until the
\* drain begins it is the last TrailMaxLen appended positions, oldest first
\* (all of them while fewer have been appended).
C11_TrailIsLastAppended ==
    /\ Len(trail) <= TrailMaxLen
    /\ (Len(appended) < HistCap /\ tick.branch \in {"none", "animate"})
        => trail = LastK(appended, TrailMaxLen)

\* two positions have already been pushed out of a full trail
C11_Witness ==
    /\ tick.branch = "animate"
    /\ Len(appended) = TrailMaxLen + 2
    /\ Len(trail) = TrailMaxLen
    /\ trail[TrailMaxLen] = appended[TrailMaxLen + 2]
    /\ trail[1] = appended[3]
    /\ \E k \in 1..TrailMaxLen : trail[k] # appended[k]

\* how often instance i was updated according to the log o
TimesUpdated(o, i) == Cardinality({k \in DOMAIN o : o[k] = i})

\* C12: every tick of AnimateDemo.update (active, draining or posting quit)
\* updates the actor Animation exactly once and before the positional one;
\* with an active positional Animation the tick updates it exactly once,
\* writes its value() into the tracked attribute of rect and appends exactly
\* one position, the new rect.center, to the trail.
C12_TickUpdates ==
    [][(pc = "update" /\ pc' \in {"draw", "crashed"}) =>
        LET o  == tick'.order
            an == demo_updates(Heap(anims, durs), actor_animation,
                               animation).anims[animation]
        IN  /\ tick'.branch \in {"animate", "drain", "quit"}
            /\ tick'.branch = "animate" <=> animation # None
            /\ o # <<>> /\ o[1] = actor_animation
            /\ TimesUpdated(o, actor_animation) = 1
            /\ animation = None => Len(o) = 1 /\ appended' = appended
            /\ animation # None =>
                /\ Len(o) = 2 /\ TimesUpdated(o, animation) = 1
                /\ an.attr = "centerx" =>
                    /\ rect'.centerx = Trunc(value(an))
                    /\ rect'.centery = rect.centery
                /\ an.attr # "centerx" =>
                    /\ rect'.centery = Trunc(value(an))
                    /\ rect'.centerx = rect.centerx
                /\ Len(appended) < HistCap =>
                    appended' = Append(appended, <<rect'.centerx, rect'.centery>>)
                /\ Len(trail') = IF Len(trail) < TrailMaxLen
                                 THEN Len(trail) + 1 ELSE TrailMaxLen
                /\ trail'[Len(trail')] = <<rect'.centerx, rect'.centery>>
                /\ \A k \in 1..(Len(trail') - 1) :
                      trail'[k] = trail[k + Len(trail) + 1 - Len(trail')]
    ]_vars

\* a tick with an active Animation that moved rect and lengthened the trail,
\* and later a draining tick
C12_Witness ==
    /\ pc = "draw" /\ tick.branch = "drain"
    /\ tick.order = <<actor_animation>>
    /\ Len(appended) > Len(trail) + 1
    /\ \E k \in 2..Len(appended) : appended[k] # appended[k - 1]

\* C13: an Animation given fewer than two values never comes into being:
\* under the one-pass and under the cyclic pair policy the constructor's
\* start() raises StopIteration at once, before any update(), and the error
\* is not turned into running = False.
C13_TooFewValuesRaises ==
    Len(self.values) < 2 =>
        /\ err = "StopIteration"
        /\ lastOp = "construct"
        /\ calls = 0
        /\ ~Constructed

\* the constructor of a cyclic Animation over a single value has raised
C13_Witness ==
    /\ Len(self.values) = 1
    /\ self.iterfunc = "cycle"
    /\ lastOp = "construct"
    /\ err = "StopIteration"
    /\ DurHasNext(durs[self.durations])

-----------------------------------------------------------------------------
(* lerp / invlerp: the blend functions, dispatched on the type of a *)

MaxNum == 1        \* largest integer among the blended numbers
MaxArity == 2      \* longest tuple

\* A Python value: kind is its type, num / den its number in lowest terms
\* (a Surface's identity in num), items the members of a tuple or a Color.
\* A raised exception is a value whose kind is the exception's name.
PyVal(kind, num, den, items) ==
    [kind |-> kind, num |-> num, den |-> den, items |-> items]

Abs(n) == IF n < 0 THEN -n ELSE n

RECURSIVE Gcd(_, _)
Gcd(m, n) == IF n = 0 THEN m ELSE Gcd(n, m % n)

\* the number n / d (d # 0) of type kind, in lowest terms
Num(kind, n, d) ==
    LET g  == Gcd(Abs(n), Abs(d))
        sg == IF d < 0 THEN -1 ELSE 1
    IN  PyVal(kind, sg * (n \div g), Abs(d) \div g, <<>>)

IntV(n)       == Num("int", n, 1)
FloatV(n, d)  == Num("float", n, d)
TupleV(items) == PyVal("tuple", 0, 1, items)
ColorV(items) == PyVal("Color", 0, 1, items)
SurfaceV(id)  == PyVal("Surface", id, 1, <<>>)
ObjectV       == PyVal("object", 0, 1, <<>>)
NoneV         == PyVal("NoneType", 0, 1, <<>>)
Raise(exc)    == PyVal(exc, 0, 1, <<>>)

Exceptions == {"TypeError", "NameError", "ZeroDivisionError", "ValueError"}
Raised(v)  == v.kind \in Exceptions
IsNumber(v)   == v.kind \in {"int", "float"}
IsIterable(v) == v.kind \in {"tuple", "Color"}

\* equality and order of two numbers
NumEq(p, q) == p.num * q.den = q.num * p.den
NumLess(p, q) == p.num * q.den < q.num * p.den

\* the type of an arithmetic result: float as soon as one operand is
ArithKind(ks) == IF "float" \in ks THEN "float" ELSE "int"

\* _lerp: a * (1 - t) + b * t, reached with a number for a
lerp_num(a, b, t) ==
    IF ~IsNumber(b) \/ ~IsNumber(t) THEN Raise("TypeError")
    ELSE Num(ArithKind({a.kind, b.kind, t.kind}),
             a.num * b.den * (t.den - t.num) + b.num * a.den * t.num,
             a.den * b.den * t.den)

\* the pairs zip(a, b) yields
ZipLen(a, b) == IF Len(a.items) < Len(b.items) THEN Len(a.items)
                ELSE Len(b.items)

\* what a comprehension over the results rs leaves behind: the first
\* exception raised by an element, else the finished collection
Collected(kind, rs) ==
    IF \E k \in DOMAIN rs : Raised(rs[k])
    THEN rs[CHOOSE k \in DOMAIN rs :
                /\ Raised(rs[k])
                /\ \A j \in 1..(k - 1) : ~Raised(rs[j])]
    ELSE PyVal(kind, 0, 1, rs)

\* int(v) for a channel of pygame.Color
to_int(v) == IF Raised(v) THEN v
             ELSE IF ~IsNumber(v) THEN Raise("TypeError")
             ELSE IntV(Trunc(v))

\* pygame.Color(*channels): every channel must lie in 0..255
new_Color(c) ==
    IF Raised(c) THEN c
    ELSE IF \E k \in DOMAIN c.items : c.items[k].num \notin 0..255
         THEN Raise("ValueError")
         ELSE c

\* lerp: functools.singledispatch on type(a); the fallback body is pass
RECURSIVE lerp_dispatch(_, _, _)
lerp_dispatch(a, b, t) ==
    CASE a.kind \in {"int", "float"} -> lerp_num(a, b, t)
      [] a.kind = "tuple" ->
            IF ~IsIterable(b) THEN Raise("TypeError")
            ELSE Collected("tuple",
                    [k \in 1..ZipLen(a, b) |->
                        lerp_dispatch(a.items[k], b.items[k], t)])
      [] a.kind = "Color" ->
            IF ~IsIterable(b) THEN Raise("TypeError")
            ELSE new_Color(Collected("Color",
                    [k \in 1..ZipLen(a, b) |->
                        to_int(lerp_dispatch(a.items[k], b.items[k], t))]))
      [] a.kind = "Surface" ->
            IF ~IsNumber(t) THEN Raise("TypeError")
            ELSE IF NumLess(FloatV(1, 2), t) THEN b ELSE a
      [] OTHER -> NoneV

\* _invlerp: (x - a) / (b - a), reached with an int for a
invlerp_num(a, b, x) ==
    IF ~IsNumber(x) \/ ~IsNumber(b) THEN Raise("TypeError")
    ELSE IF NumEq(a, b) THEN Raise("ZeroDivisionError")
    ELSE Num("float",
             (x.num * a.den - a.num * x.den) * (b.den * a.den),
             (x.den * a.den) * (b.num * a.den - a.num * b.den))

\* invlerp: functools.singledispatch on type(a), registered for int and
\* tuple; the tuple body names t, which is not defined in its scope
invlerp(a, b, x) ==
    CASE a.kind = "int" -> invlerp_num(a, b, x)
      [] a.kind = "tuple" ->
            IF ~IsIterable(b) THEN Raise("TypeError")
            ELSE IF ZipLen(a, b) = 0 THEN TupleV(<<>>)
            ELSE Raise("NameError")
      [] OTHER -> NoneV

(* The calls of lerp / invlerp / Animation.value that are examined *)

Ints         == {IntV(n) : n \in 0..MaxNum}
Floats       == {FloatV(k, 2) : k \in 0..(2 * MaxNum)}
Tuples       == {TupleV(items) : items \in SeqsUpTo(Ints, MaxArity)}
                    \cup {TupleV(<<IntV(0), ObjectV>>)}
Unregistered == {ObjectV, NoneV}
Colors       == {ColorV(<<IntV(c), IntV(c), IntV(c), IntV(255)>>) : c \in {0, 255}}
Surfaces     == {SurfaceV(1), SurfaceV(2)}
Shapes       == Ints \cup Floats \cup Tuples \cup Unregistered

\* the pairs (a, b) blended
ArgPairs == (Shapes \X Shapes) \cup (Colors \X Colors) \cup (Surfaces \X Surfaces)

\* the fractions t: inside, at the ends of and outside [0, 1]
Ts == {FloatV(k, 2) : k \in (-1)..3} \cup {IntV(0), IntV(1)}

\* time = self.frame / self.current_duration
Times == {FloatV(f, d) : f \in 0..(MaxDur + 1), d \in 1..MaxDur}

\* the third arguments tried with each function
BlendArgs(fn) ==
    CASE fn = "lerp"    -> Ts
      [] fn = "invlerp" -> Shapes
      [] OTHER          -> Times

\* a call about to be made, with arguments of every shape
InitBlend ==
    /\ \E fn \in {"lerp", "invlerp", "value"}, ab \in ArgPairs :
       \E c \in BlendArgs(fn) :
          call = [fn |-> fn, args |-> <<ab[1], ab[2], c>>, done |-> FALSE]
    /\ result = NoCall
    /\ anims = <<>> /\ durs = <<>>
    /\ err = "none" /\ lastOp = "none" /\ unit = TRUE /\ calls = 0
    /\ startFrom = "new"
    /\ stats = [pulled |-> 0, called |-> 0]
    /\ DemoConstructed

\* lerp(a, b, t)
CallLerp ==
    /\ call.fn = "lerp" /\ ~call.done
    /\ result' = lerp_dispatch(call.args[1], call.args[2], call.args[3])
    /\ call' = [call EXCEPT !.done = TRUE]
    /\ UNCHANGED <<engineVars, driverVars>>

\* invlerp(a, b, x)
CallInvlerp ==
    /\ call.fn = "invlerp" /\ ~call.done
    /\ result' = invlerp(call.args[1], call.args[2], call.args[3])
    /\ call' = [call EXCEPT !.done = TRUE]
    /\ UNCHANGED <<engineVars, driverVars>>

\* Animation.value() with lerpfunc = lerp: lerp(self.a, self.b, time)
CallValue ==
    /\ call.fn = "value" /\ ~call.done
    /\ result' = lerp_dispatch(call.args[1], call.args[2], call.args[3])
    /\ call' = [call EXCEPT !.done = TRUE]
    /\ UNCHANGED <<engineVars, driverVars>>

NextBlend == CallLerp \/ CallInvlerp \/ CallValue

SpecBlend == InitBlend /\ [][NextBlend]_vars

\* the call has returned or raised: a, b, c are its arguments
Returned(fn) == call.fn = fn /\ call.done

\* the kinds of a for which a handler is said to be registered
Supported == {"int", "float", "tuple", "Color", "Surface"}

\* C14: lerp and invlerp given an a of no supported kind raise an error
\* instead of returning None, and Animation.value() never returns None.
C14_UnregisteredFailsLoudly ==
    /\ (call.done /\ call.args[1].kind \notin Supported) => Raised(result)
    /\ Returned("value") => result # NoneV

\* C15: lerp of two tuples of different length raises instead of returning
\* a tuple cut to the shorter one; for equal lengths it returns the tuple of
\* the element-wise lerps.
C15_TupleLerpArity ==
    LET a == call.args[1]
        b == call.args[2]
        t == call.args[3]
    IN  (Returned("lerp") /\ a.kind = "tuple" /\ b.kind = "tuple") =>
            IF Len(a.items) # Len(b.items)
            THEN Raised(result)
            ELSE result = Collected("tuple",
                            [k \in 1..Len(a.items) |->
                                lerp_dispatch(a.items[k], b.items[k], t)])

\* a tuple of numbers
NumberTuple(v) ==
    v.kind = "tuple" /\ \A k \in DOMAIN v.items : IsNumber(v.items[k])

\* C16: invlerp of tuples a, b, x of one length with a[i] # b[i] everywhere
\* returns the tuple of the fractions (x[i] - a[i]) / (b[i] - a[i]).
C16_TupleInvlerpElementwise ==
    LET a == call.args[1]
        b == call.args[2]
        x == call.args[3]
    IN  ( /\ Returned("invlerp")
          /\ NumberTuple(a) /\ NumberTuple(b) /\ NumberTuple(x)
          /\ Len(a.items) = Len(b.items) /\ Len(a.items) = Len(x.items)
          /\ \A k \in DOMAIN a.items : ~NumEq(a.items[k], b.items[k]) ) =>
            /\ result.kind = "tuple"
            /\ Len(result.items) = Len(a.items)
            /\ \A k \in DOMAIN a.items :
                  /\ IsNumber(result.items[k])
                  /\ NumEq(result.items[k],
                           invlerp_num(a.items[k], b.items[k], x.items[k]))

\* C17: for numbers a # b, int or float, and every fraction t,
\* invlerp(a, b, lerp(a, b, t)) is t; for a = b it raises ZeroDivisionError.
C17_RoundTrip ==
    LET a == call.args[1]
        b == call.args[2]
        t == call.args[3]
    IN  (Returned("lerp") /\ IsNumber(a) /\ IsNumber(b) /\ IsNumber(t)) =>
            LET back == invlerp(a, b, result)
            IN  IF NumEq(a, b)
                THEN back = Raise("ZeroDivisionError")
                ELSE IsNumber(back) /\ NumEq(back, t)

\* C18: with a next_callback, every call of start() or update() invokes the
\* callback exactly as often as it replaces the current pair (a, b): once
\* when it pulls a pair, not at all when it pulls nothing.
C18_CallbackOncePerPull ==
    self.next_callback => stats.called = stats.pulled

\* repeat mode: it.cycle over a non-empty list of Animations, run() entered
RepeatMode == animations.kind = "cycle" /\ Len(animations.items) > 0

\* the Animation has just been put back to its first pair
AtFirstPair(an) ==
    an.frame = 0 /\ an.a = an.values[1] /\ an.b = an.values[2]

\* C19 as stated: in repeat mode, after AnimateDemo.start, self.animation
\* is never None, no QUIT is posted, no entry ever leaves the trail, and an
\* Animation that stops is followed by the next one of the list (the first
\* after the last), restarted at its first pair with frame 0.
C19_RepeatKeepsEveryEntry ==
    (RepeatMode /\ pc # "constructed") =>
        /\ animation # None
        /\ posted = 0
        /\ Len(appended) < HistCap => trail = appended
        /\ (tick.finished /\ pc \in {"draw", "crashed"}) =>
              /\ animation = Successor(tick.active)
              /\ AtFirstPair(anims[animation])

\* C19, amended: as above, but of the trail only this: AnimateDemo.update
\* never takes the draining branch and never shortens the trail; the one
\* way an entry leaves is as the oldest of a full trail, on append.
C19_RepeatNeverDrains ==
    [][RepeatMode =>
        /\ animation' # None
        /\ posted' = 0
        /\ tick'.branch \in {"none", "animate"}
        /\ Len(trail') >= Len(trail)
        /\ trail' # trail =>
              /\ trail'[Len(trail')] = <<rect'.centerx, rect'.centery>>
              /\ \A k \in 1..(Len(trail') - 1) :
                    trail'[k] = trail[k + Len(trail) + 1 - Len(trail')]
        /\ (tick'.finished /\ pc = "update") =>
              /\ animation' = Successor(tick'.active)
              /\ AtFirstPair(anims'[animation'])
              /\ pc' = "draw" => FreshlyStarted(anims'[animation'])
    ]_vars

\* the last Animation of a list of MaxAnims has stopped with a full trail
\* and the first one is running again
C19_Witness ==
    /\ RepeatMode /\ pc = "draw"
    /\ Len(animations.items) = MaxAnims
    /\ tick.finished /\ tick.active = MaxAnims /\ animation = 1
    /\ FreshlyStarted(anims[1])
    /\ Len(trail) = TrailMaxLen
    /\ Len(appended) > TrailMaxLen

\* the step took exactly the next value of the duration iterator du
ConsumesOne(du) ==
    /\ DurHasNext(du)
    /\ durs'[self.durations] = DurAdvance(du)
    /\ self'.current_duration = DurNext(du)

\* C20: the durations are only ever consumed forwards: a start() that
\* returns and an update() that moves to the next segment take exactly the
\* next duration, an update() that only advances frame (or finds a sequence
\* exhausted) and a start() that raises take none, and no call puts the
\* iterator back, so a restart continues with the next unconsumed duration.
C20_DurationsForward ==
    [][LET du == durs[self.durations] IN
        /\ (lastOp' = "start" /\ err' = "none") => ConsumesOne(du)
        /\ (lastOp' = "start" /\ err' # "none") => durs' = durs
        /\ lastOp' = "update_next" => ConsumesOne(du)
        /\ lastOp' \in {"update_advance", "update_exhausted"} =>
              /\ durs' = durs
              /\ self'.current_duration = self.current_duration
        /\ du.kind = "iter" => durs'[self.durations].pos >= du.pos
    ]_vars

\* a restart has taken the second duration of a finite list, which differs
\* from the first
C20_Witness ==
    /\ lastOp = "start" /\ err = "none"
    /\ durs[self.durations].kind = "iter"
    /\ durs[self.durations].pos = 2
    /\ self.current_duration = durs[self.durations].seq[2]
    /\ durs[self.durations].seq[2] # durs[self.durations].seq[1]

====
